---- MODULE Spec2Model ----
(***************************************************************************)
(* Model of the SQL generator's field-name reconciliation:                 *)
(*   utils/text_utils.py   normalizer, sorter                              *)
(*   generator/main.py     the per-schema loop of main                     *)
(*                                                                         *)
(* A string is a sequence of characters; a character is a one-token        *)
(* string ("a", " ", "-").  "U1D400" stands for the single code point      *)
(* U+1D400 (MATHEMATICAL BOLD CAPITAL A): a letter of category Lu that     *)
(* str.lower() leaves alone and that \w matches.                           *)
(***************************************************************************)
EXTENDS Integers, Sequences, FiniteSets, TLC

VARIABLES
    \* one call of normalizer, and a second call on its result
    text, norm_out, norm_again, npc,
    \* one call of sorter, as main makes it
    origin, normalized, alias, alias_map, used_aliases, idx, aligned_aliases, spc,
    \* history of sorter's loop: what each index was given, and how
    assigned,
    \* main's loop over the schemas
    schemas, alias_sheet_ok, cur, outcome, log, mstatus

nvars == <<text, norm_out, norm_again, npc>>
svars == <<origin, normalized, alias, alias_map, used_aliases, idx, aligned_aliases,
           spc, assigned>>
mvars == <<schemas, alias_sheet_ok, cur, outcome, log, mstatus>>
vars == <<nvars, svars, mvars>>

----------------------------------------------------------------------------
\* Bounds of the model.
MaxLen == 4
MaxFields == 3
MaxPool == 2
MaxSchemas == 3

RECURSIVE SeqsUpTo(_, _)
SeqsUpTo(S, n) ==
    IF n = 0 THEN {<<>>}
    ELSE LET shorter == SeqsUpTo(S, n - 1)
         IN  shorter \cup {Append(s, x) : s \in {t \in shorter : Len(t) = n - 1}, x \in S}

----------------------------------------------------------------------------
\* Characters, as Python's str.lower and re (Unicode mode) class them.

AsciiUpper == <<"A", "F", "G", "S", "T">>
AsciiLower == <<"a", "f", "g", "s", "t">>
OtherLower == {"b", "e", "i", "n", "r"}
Digits == {"1", "2", "3"}
UncasedCapital == "U1D400"

\* c.lower() for one character
Lower(c) ==
    IF \E k \in 1..Len(AsciiUpper) : AsciiUpper[k] = c
    THEN AsciiLower[CHOOSE k \in 1..Len(AsciiUpper) : AsciiUpper[k] = c]
    ELSE c

\* the class \w of re: letters, digits and the underscore
IsWord(c) ==
    \/ \E k \in 1..Len(AsciiUpper) : c = AsciiUpper[k] \/ c = AsciiLower[k]
    \/ c \in OtherLower \cup Digits \cup {"_", UncasedCapital}

\* the class \s of re, which is also what str.strip() strips
IsSpace(c) == c \in {" ", "\t"}

\* text.lower() without the call: the skipped step
str_lower_skipped(s) == s

\* text.lower()
str_lower(s) == [i \in 1..Len(s) |-> Lower(s[i])]

\* re.sub(r"[^\w\s]", "", text)
re_sub_nonword(s) == SelectSeq(s, LAMBDA c : IsWord(c) \/ IsSpace(c))

RECURSIVE str_lstrip(_)
str_lstrip(s) ==
    IF s # <<>> /\ IsSpace(Head(s)) THEN str_lstrip(Tail(s)) ELSE s

RECURSIVE str_rstrip(_)
str_rstrip(s) ==
    IF s # <<>> /\ IsSpace(s[Len(s)]) THEN str_rstrip(SubSeq(s, 1, Len(s) - 1)) ELSE s

\* the call of strip() left out
str_strip_skipped(s) == s

\* text.strip()
str_strip(s) == str_rstrip(str_lstrip(s))

\* a hyphen as the separator
SeparatorHyphen == "-"

\* the replacement string of re.sub(r"\s+", "_", ...)
Separator == "_"

\* re.sub(r"\s+", "_", text): the scan from the left, each maximal run of
\* whitespace replaced by one separator
RECURSIVE re_sub_whitespace(_)
re_sub_whitespace(s) ==
    IF s = <<>> THEN <<>>
    ELSE IF IsSpace(Head(s))
         THEN <<Separator>> \o re_sub_whitespace(str_lstrip(s))
         ELSE <<Head(s)>> \o re_sub_whitespace(Tail(s))

normalizer(s) == re_sub_whitespace(str_strip(re_sub_nonword(str_lower(s))))

----------------------------------------------------------------------------
\* The inputs of the normalizer specification.
Alphabet == {"A", "a", "_", " ", "-", UncasedCapital}

NormIdle ==
    /\ text = <<>>
    /\ norm_out = <<>>
    /\ norm_again = <<>>
    /\ npc = "idle"

SorterIdle ==
    /\ origin = <<>>
    /\ normalized = <<>>
    /\ alias = <<>>
    /\ alias_map = <<>>
    /\ used_aliases = {}
    /\ idx = 1
    /\ aligned_aliases = <<>>
    /\ spc = "idle"
    /\ assigned = <<>>

MainIdle ==
    /\ schemas = <<>>
    /\ alias_sheet_ok = TRUE
    /\ cur = 1
    /\ outcome = <<>>
    /\ log = <<>>
    /\ mstatus = "idle"

NormInit ==
    /\ text \in SeqsUpTo(Alphabet, MaxLen)
    /\ norm_out = <<>>
    /\ norm_again = <<>>
    /\ npc = "start"
    /\ SorterIdle
    /\ MainIdle

\* result = normalizer(text)
CallNormalizer ==
    /\ npc = "start"
    /\ norm_out' = normalizer(text)
    /\ npc' = "called"
    /\ UNCHANGED <<text, norm_again, svars, mvars>>

\* normalizer applied to its own result
CallNormalizerAgain ==
    /\ npc = "called"
    /\ norm_again' = normalizer(norm_out)
    /\ npc' = "again"
    /\ UNCHANGED <<text, norm_out, svars, mvars>>

NormNext == CallNormalizer \/ CallNormalizerAgain

SpecNorm == NormInit /\ [][NormNext]_vars

----------------------------------------------------------------------------
\* Properties of normalizer.

IsUpper(c) == (\E k \in 1..Len(AsciiUpper) : c = AsciiUpper[k]) \/ c = UncasedCapital
IsPunctuation(c) == ~IsWord(c) /\ ~IsSpace(c)
NormCalled == npc \in {"called", "again"}

\* C7 as stated: the result of normalizer holds no uppercase letter, no
\* punctuation character and no whitespace character, and its underscores
\* stand singly, each between two characters that are not underscores.
C7_AsStated ==
    NormCalled =>
        /\ \A i \in 1..Len(norm_out) :
               ~IsUpper(norm_out[i]) /\ ~IsPunctuation(norm_out[i]) /\ ~IsSpace(norm_out[i])
        /\ \A i \in 1..Len(norm_out) :
               norm_out[i] = "_" =>
                   /\ 1 < i /\ i < Len(norm_out)
                   /\ norm_out[i - 1] # "_" /\ norm_out[i + 1] # "_"

\* C7 amended: every character of the result of normalizer is a word
\* character that lowercasing leaves unchanged, so the result holds no
\* whitespace, no punctuation other than the underscore and no letter that
\* has a lowercase form; and when the input holds no underscore, the
\* underscores of the result stand singly, each between two characters that
\* are not underscores.
C7_OutputAlphabet ==
    NormCalled =>
        /\ \A i \in 1..Len(norm_out) :
               /\ IsWord(norm_out[i])
               /\ ~IsSpace(norm_out[i])
               /\ Lower(norm_out[i]) = norm_out[i]
        /\ (\A i \in 1..Len(text) : text[i] # "_") =>
               \A i \in 1..Len(norm_out) :
                   norm_out[i] = "_" =>
                       /\ 1 < i /\ i < Len(norm_out)
                       /\ norm_out[i - 1] # "_" /\ norm_out[i + 1] # "_"

\* C7 witness: an input with uppercase, whitespace and underscores whose
\* result keeps two underscores side by side.
C7_Witness ==
    /\ NormCalled
    /\ \E i \in 1..Len(text) : IsUpper(text[i])
    /\ \E i \in 1..Len(text) : IsSpace(text[i])
    /\ \E i \in 1..(Len(norm_out) - 1) : norm_out[i] = "_" /\ norm_out[i + 1] = "_"

\* The four steps of the contract in one pass over the input: a character is
\* lowercased; whitespace is remembered, not copied; a character that is
\* neither a word character nor whitespace is dropped with nothing in its
\* place; a word character is copied, after one underscore when whitespace
\* was met since the last copied character.
RECURSIVE CanonicalForm(_, _, _)
CanonicalForm(s, out, pending) ==
    IF s = <<>> THEN out
    ELSE LET c == Lower(Head(s))
         IN  IF IsSpace(c) THEN CanonicalForm(Tail(s), out, TRUE)
             ELSE IF IsWord(c)
                  THEN CanonicalForm(Tail(s),
                           (IF pending /\ out # <<>> THEN Append(out, "_") ELSE out) \o <<c>>,
                           FALSE)
                  ELSE CanonicalForm(Tail(s), out, pending)

TestString == <<"T", "e", "s", "t", " ", "S", "t", "r", "i", "n", "g">>
TestHyphenString == <<"T", "e", "s", "t", "-", "S", "t", "r", "i", "n", "g">>
TestSpacedString ==
    <<" ", " ", "T", "e", "s", "t", " ", " ", "S", "t", "r", "i", "n", "g", " ", " ">>

\* C8: normalizer(s) is s lowercased, without the characters that are
\* neither word characters nor whitespace, stripped, each maximal run of
\* whitespace replaced by one underscore; and the three cases of the test.
C8_StepsInOrder ==
    /\ NormCalled => norm_out = CanonicalForm(text, <<>>, FALSE)
    /\ npc = "start" =>
        /\ normalizer(TestString) = <<"t", "e", "s", "t", "_", "s", "t", "r", "i", "n", "g">>
        /\ normalizer(TestHyphenString) = <<"t", "e", "s", "t", "s", "t", "r", "i", "n", "g">>
        /\ normalizer(TestSpacedString) = <<"t", "e", "s", "t", "_", "s", "t", "r", "i", "n", "g">>

\* C8 witness: an input with an uppercase letter, whitespace and a
\* punctuation character, normalized to two letters and one underscore.
C8_Witness ==
    /\ NormCalled
    /\ \E i \in 1..Len(text) : IsUpper(text[i])
    /\ \E i \in 1..Len(text) : IsPunctuation(text[i])
    /\ \E i \in 1..Len(text) : IsSpace(text[i])
    /\ norm_out = <<"a", "_", "a">>

\* C9: normalizer applied to a result of normalizer returns it unchanged.
C9_Idempotent == npc = "again" => norm_again = norm_out

\* C9 witness: a second call on a result that differs from the input and
\* holds a separator.
C9_Witness ==
    /\ npc = "again"
    /\ norm_out # text
    /\ \E i \in 1..Len(norm_out) : norm_out[i] = "_"
    /\ \E i \in 1..Len(text) : IsSpace(text[i])

----------------------------------------------------------------------------
\* sorter.

\* next(..., None) when the generator is empty; no alias is this string
None == <<"None">>

\* norm in alias
InPool(pool, norm) == \E k \in 1..Len(pool) : pool[k] = norm

\* a.startswith(norm)
startswith(a, norm) == Len(norm) <= Len(a) /\ SubSeq(a, 1, Len(norm)) = norm

\* the generator of the fallback taken from its other end
RECURSIVE last_candidate(_, _, _, _)
last_candidate(pool, norm, used, k) ==
    IF k < 1 THEN None
    ELSE IF startswith(pool[k], norm) /\ pool[k] \notin used THEN pool[k]
         ELSE last_candidate(pool, norm, used, k - 1)

next_candidate_from_end(pool, norm, used) == last_candidate(pool, norm, used, Len(pool))

\* (a for a in alias if a.startswith(norm) and a not in used_aliases), from
\* position k of the pool on
RECURSIVE scan_candidates(_, _, _, _)
scan_candidates(pool, norm, used, k) ==
    IF k > Len(pool) THEN None
    ELSE IF startswith(pool[k], norm) /\ pool[k] \notin used THEN pool[k]
         ELSE scan_candidates(pool, norm, used, k + 1)

\* next((a for a in alias if ...), None)
next_candidate(pool, norm, used) == scan_candidates(pool, norm, used, 1)

\* fallback or f"{norm}": None and the empty string are both false
fallback_or(fallback, norm) ==
    IF fallback = None \/ fallback = <<>> THEN norm ELSE fallback

\* the if branch: what index gets, and the set of used aliases after it
sorter_if(norm, used) ==
    [alias |-> norm, how |-> "exact", before |-> used, after |-> used \cup {norm}]

\* the else branch with the choice added to the used aliases
sorter_else_marking(pool, norm, used) ==
    LET fallback == next_candidate(pool, norm, used)
    IN  [alias |-> fallback_or(fallback, norm),
         how |-> IF fallback = None THEN "fallback" ELSE "prefix",
         before |-> used,
         after |-> used \cup {fallback_or(fallback, norm)}]

\* the else branch: used_aliases is left as it is
sorter_else(pool, norm, used) ==
    LET fallback == next_candidate(pool, norm, used)
    IN  [alias |-> fallback_or(fallback, norm),
         how |-> IF fallback = None THEN "fallback" ELSE "prefix",
         before |-> used,
         after |-> used]

\* alias_map[orig_raw] = value
dict_set(map, key, value) ==
    [x \in DOMAIN map \cup {key} |-> IF x = key THEN value ELSE map[x]]

\* the keys of alias_map in the order of their first insertion
RECURSIVE dict_keys(_)
dict_keys(orig) ==
    IF orig = <<>> THEN <<>>
    ELSE LET front == dict_keys(SubSeq(orig, 1, Len(orig) - 1))
             last == orig[Len(orig)]
         IN  IF \E k \in 1..Len(front) : front[k] = last THEN front
             ELSE Append(front, last)

\* list(alias_map.values()): one alias per key, not per position
aligned_by_key(orig, map) ==
    LET keys == dict_keys(orig) IN [i \in 1..Len(keys) |-> map[keys[i]]]

\* [alias_map[orig] for orig in origin]
aligned(orig, map) == [i \in 1..Len(orig) |-> map[orig[i]]]

\* The fields of a schema file and the aliases of the sheet.
OriginFields ==
    {<<"F">>, <<"f">>, <<"F", " ", "a">>, <<"G">>, <<"g">>}
AliasCandidates ==
    {<<"f">>, <<"f", "_", "a">>, <<"f", "_", "b">>}

\* main: normalized_origin_fields = [normalizer(f) for f in origin_fields],
\* then sorter(origin, normalized, alias) with empty alias_map, used_aliases
SorterInit ==
    /\ origin \in SeqsUpTo(OriginFields, MaxFields)
    /\ normalized = [i \in 1..Len(origin) |-> normalizer(origin[i])]
    /\ alias \in SeqsUpTo(AliasCandidates, MaxPool)
    /\ alias_map = <<>>
    /\ used_aliases = {}
    /\ idx = 1
    /\ aligned_aliases = <<>>
    /\ spc = "loop"
    /\ assigned = <<>>
    /\ NormIdle
    /\ MainIdle

\* one pass of the loop through the if branch
SorterIf ==
    /\ spc = "loop"
    /\ idx <= Len(origin)
    /\ InPool(alias, normalized[idx]) /\ normalized[idx] \notin used_aliases
    /\ LET r == sorter_if(normalized[idx], used_aliases)
       IN  /\ alias_map' = dict_set(alias_map, origin[idx], r.alias)
           /\ used_aliases' = r.after
           /\ assigned' = Append(assigned, r)
    /\ idx' = idx + 1
    /\ UNCHANGED <<origin, normalized, alias, aligned_aliases, spc, nvars, mvars>>

\* one pass of the loop through the else branch
SorterElse ==
    /\ spc = "loop"
    /\ idx <= Len(origin)
    /\ ~(InPool(alias, normalized[idx]) /\ normalized[idx] \notin used_aliases)
    /\ LET r == sorter_else(alias, normalized[idx], used_aliases)
       IN  /\ alias_map' = dict_set(alias_map, origin[idx], r.alias)
           /\ used_aliases' = r.after
           /\ assigned' = Append(assigned, r)
    /\ idx' = idx + 1
    /\ UNCHANGED <<origin, normalized, alias, aligned_aliases, spc, nvars, mvars>>

\* the list comprehension and the return; alias_map[orig] raises KeyError
\* for a key the loop did not set
SorterReturn ==
    /\ spc = "loop"
    /\ idx > Len(origin)
    /\ IF \A i \in 1..Len(origin) : origin[i] \in DOMAIN alias_map
       THEN /\ aligned_aliases' = aligned(origin, alias_map)
            /\ spc' = "done"
       ELSE /\ aligned_aliases' = aligned_aliases
            /\ spc' = "error"
    /\ UNCHANGED <<origin, normalized, alias, alias_map, used_aliases, idx, assigned,
                   nvars, mvars>>

SorterNext == SorterIf \/ SorterElse \/ SorterReturn

SpecSorter == SorterInit /\ [][SorterNext]_vars

----------------------------------------------------------------------------
\* Properties of sorter.  assigned[i] is what the loop gave index i: its
\* alias, the branch (exact: the if branch; prefix: a candidate of the pool
\* found by the scan; fallback: the normalized form itself) and the set of
\* used aliases before and after.

Matched(i) == assigned[i].how \in {"exact", "prefix"}

\* C1 as stated: a pool candidate given to an index through exact match or
\* prefix match is marked consumed, and no later index of the call is given
\* that candidate through exact match or prefix match.
C1_ConsumedAtMostOnce ==
    /\ \A i \in 1..Len(assigned) : Matched(i) => assigned[i].alias \in assigned[i].after
    /\ \A i, j \in 1..Len(assigned) :
           (i < j /\ Matched(i) /\ Matched(j)) => assigned[i].alias # assigned[j].alias

\* no earlier index was given the normalized form of index i through a match
NotConsumedBefore(i) ==
    ~\E j \in 1..(i - 1) : Matched(j) /\ assigned[j].alias = normalized[i]

\* C2 as stated: when normalized[i] is in the pool and no earlier index
\* consumed it, the output at index i is normalized[i].
C2_ExactMatchInOutput ==
    spc = "done" =>
        \A i \in 1..Len(origin) :
            (InPool(alias, normalized[i]) /\ NotConsumedBefore(i))
                => aligned_aliases[i] = normalized[i]

\* C3 as stated: the output at every index is the alias chosen at that
\* index, also when another index holds the same origin string.
C3_AssignedIndependently ==
    spc = "done" =>
        \A i \in 1..Len(origin) : aligned_aliases[i] = assigned[i].alias

\* position k of the pool holds a candidate that starts with normalized[i]
\* and was not in used_aliases when the loop reached index i
UnusedPrefixAt(k, i) ==
    startswith(alias[k], normalized[i]) /\ alias[k] \notin assigned[i].before

\* index i had no exact match to take
NoExactAt(i) ==
    ~InPool(alias, normalized[i]) \/ normalized[i] \in assigned[i].before

NoPrefixAt(i) == ~\E k \in 1..Len(alias) : UnusedPrefixAt(k, i)

C6_Total ==
    /\ spc # "error"
    /\ spc = "loop" => idx <= Len(origin) + 1 /\ Len(assigned) = idx - 1
    /\ spc = "done" =>
           /\ Len(aligned_aliases) = Len(origin)
           /\ \A i \in 1..Len(origin) : aligned_aliases[i] = alias_map[origin[i]]

\* C6 witness: a call with the empty pool and a repeated field has returned.
C6_Witness ==
    /\ spc = "done"
    /\ alias = <<>>
    /\ \E i, j \in 1..Len(origin) : i < j /\ origin[i] = origin[j]
    /\ Len(aligned_aliases) = Len(origin)

----------------------------------------------------------------------------
\* main: the loop over the schemas found in the schemas directory.  A schema
\* is what the loop meets for it: whether config["replacements"] has it,
\* whether its .txt file can be read, and whether the "Tablas Lakehouse"
\* sheet has a row for its replacement key.  alias_sheet_ok: the "Campos
\* Lakehouse" sheet has the two columns the alias lookup reads.  The aliases
\* are strings, so normalizer and sorter return (C6).

SchemaKinds ==
    [in_replacements : BOOLEAN, file_readable : BOOLEAN, lookup_hit : BOOLEAN]

MainInit ==
    /\ schemas \in SeqsUpTo(SchemaKinds, MaxSchemas)
    /\ alias_sheet_ok \in BOOLEAN
    /\ cur = 1
    /\ outcome = [i \in 1..Len(schemas) |-> "pending"]
    /\ log = <<>>
    /\ mstatus = "running"
    /\ NormIdle
    /\ SorterIdle

InLoop == mstatus = "running" /\ cur <= Len(schemas)

\* what an iteration does when it ends in continue
Continue(result, entry) ==
    /\ outcome' = [outcome EXCEPT ![cur] = result]
    /\ log' = log \o <<[level |-> "info", what |-> "processing", schema |-> cur], entry>>
    /\ cur' = cur + 1
    /\ UNCHANGED <<schemas, alias_sheet_ok, mstatus, nvars, svars>>

\* if current_schema not in config["replacements"]: warning, continue
MainNotInReplacements ==
    /\ InLoop
    /\ ~schemas[cur].in_replacements
    /\ Continue("not_in_replacements",
                [level |-> "warning", what |-> "not in replacements", schema |-> cur])

\* the alias lookup raises: error, continue
MainAliasError ==
    /\ InLoop
    /\ schemas[cur].in_replacements
    /\ ~alias_sheet_ok
    /\ Continue("alias_error",
                [level |-> "error", what |-> "getting aliases", schema |-> cur])

\* load_schema_data raises (it logs and raises again): error, continue
MainLoadError ==
    /\ InLoop
    /\ schemas[cur].in_replacements
    /\ alias_sheet_ok
    /\ ~schemas[cur].file_readable
    /\ log' = log \o <<[level |-> "info", what |-> "processing", schema |-> cur],
                       [level |-> "error", what |-> "loading schema data", schema |-> cur],
                       [level |-> "error", what |-> "skipping schema", schema |-> cur]>>
    /\ outcome' = [outcome EXCEPT ![cur] = "load_error"]
    /\ cur' = cur + 1
    /\ UNCHANGED <<schemas, alias_sheet_ok, mstatus, nvars, svars>>

\* generate_glue_catalog_populators finds no row for replace[schema]:
\* .values[0] raises, the emitter logs and raises again, no try of the loop
\* body holds the call, and main's outer except logs and raises
MainLookupMiss ==
    /\ InLoop
    /\ schemas[cur].in_replacements
    /\ alias_sheet_ok
    /\ schemas[cur].file_readable
    /\ ~schemas[cur].lookup_hit
    /\ log' = log \o <<[level |-> "info", what |-> "processing", schema |-> cur],
                       [level |-> "error", what |-> "generating glue catalog", schema |-> cur],
                       [level |-> "error", what |-> "main execution", schema |-> cur]>>
    /\ outcome' = [outcome EXCEPT ![cur] = "lookup_miss"]
    /\ mstatus' = "aborted"
    /\ UNCHANGED <<schemas, alias_sheet_ok, cur, nvars, svars>>

\* both emitters write their file
MainGenerate ==
    /\ InLoop
    /\ schemas[cur].in_replacements
    /\ alias_sheet_ok
    /\ schemas[cur].file_readable
    /\ schemas[cur].lookup_hit
    /\ log' = log \o <<[level |-> "info", what |-> "processing", schema |-> cur],
                       [level |-> "info", what |-> "generated glue catalog", schema |-> cur],
                       [level |-> "info", what |-> "generated s3 populator", schema |-> cur]>>
    /\ outcome' = [outcome EXCEPT ![cur] = "generated"]
    /\ cur' = cur + 1
    /\ UNCHANGED <<schemas, alias_sheet_ok, mstatus, nvars, svars>>

\* the loop is over: "Processing completed successfully"
MainCompleted ==
    /\ mstatus = "running"
    /\ cur > Len(schemas)
    /\ log' = Append(log, [level |-> "info", what |-> "completed", schema |-> 0])
    /\ mstatus' = "completed"
    /\ UNCHANGED <<schemas, alias_sheet_ok, cur, outcome, nvars, svars>>

MainNext ==
    \/ MainNotInReplacements
    \/ MainAliasError
    \/ MainLoadError
    \/ MainLookupMiss
    \/ MainGenerate
    \/ MainCompleted

SpecMain == MainInit /\ [][MainNext]_vars

\* C10 as stated: when a schema fails by a missing replacement entry, an
\* unreadable schema file or a lookup miss, the run does not abort and every
\* schema after it in the iteration order is processed.
C10_FailureIsolated ==
    mstatus # "running" =>
        \A i \in 1..Len(schemas) :
            outcome[i] \in {"not_in_replacements", "load_error", "lookup_miss"} =>
                /\ mstatus = "completed"
                /\ \A j \in (i + 1)..Len(schemas) : outcome[j] # "pending"

----------------------------------------------------------------------------
Init == NormInit \/ SorterInit \/ MainInit
Next == NormNext \/ SorterNext \/ MainNext
Spec == Init /\ [][Next]_vars

====
